---- MODULE Spec2Model ----
(***************************************************************************)
(* A model of the pixi support of the Python extension:                    *)
(*   - Pixi.getPixi / Pixi.locate: the per-working-directory registry of   *)
(*     located pixi binaries and the probing of the candidate binaries;    *)
(*   - Pixi.getEnvList / getEnvListCached / getPixiInfo: the cached        *)
(*     accessors of one handle, run over 'pixi info --json';               *)
(*   - PixiLocator.doIterEnvs / getVirtualEnvDirs: the enumeration of the  *)
(*     environments of one root.                                           *)
(* Promises are modelled by the external invocation they are derived       *)
(* from: the promise of getEnvListCached awaits the promise of getPixiInfo *)
(* which awaits exec, so all three settle once the process has ended.      *)
(***************************************************************************)
EXTENDS Integers, Sequences, FiniteSets, TLC

\* ------------------------------------------------------------------ bounds

\* Calls of Pixi.getPixi made by callers other than the enumerator.
MaxCalls == 2
\* Times the clock advances.
MaxTicks == 2
\* Environments the tool's info document lists.
MaxEnvs == 3
\* Directories and file names in an interpreter path, below its root.
MaxDepth == 6
\* Calls of getEnvList() and getPixiInfo() made on handles by their holders.
MaxReqs == 3

\* ------------------------------------------------------- program constants

\* @cache(30_000, true, 10_000) on getEnvListCached: the expiry in ms.
EnvListTTL == 30000
\* @cache(1_000, true, 1_000) on getPixiInfo: the expiry in ms.
InfoTTL == 1000

\* The working directories of the requests.
Cwds == {"/w1", "/w2"}

\* What the clock may advance by in one step (ms).
TickSteps == {EnvListTTL}

\* The finer steps of the clock between the calls of the accessors (ms):
\* just short of each expiry.
ElapseSteps == {InfoTTL - 1, EnvListTTL - 1}

\* ---------------------------------------------------------- configuration

\* getPythonSetting('pixiToolPath'): it throws, or returns undefined, '',
\* the default 'pixi', or a path of the user's.
SettingThrows == "<throws>"
SettingUndefined == "<undefined>"
CustomPath == "path/to/pixi/binary"
Settings == {SettingThrows, SettingUndefined, "", "pixi", CustomPath}

\* path.join(home, '.pixi', 'bin', 'pixi')
DefaultPath == "<home>/.pixi/bin/pixi"

\* getUserHomeDir() and pathExistsSync(defaultpixiToolPath).
Homes == {"nohome", "missing", "exists"}

\* ----------------------------------------------------- the tool's answers

\* The top-level keys of PixiInfo that are not optional, and those of one
\* entry of environments_info.
RequiredKeys ==
    {"platform", "virtual_packages", "version", "cache_dir", "auth_dir",
     "environments_info"}
EntryKeys ==
    {"name", "features", "solve_group", "environment_size", "dependencies",
     "tasks", "channels", "prefix"}

\* The prefixes of the listed environments, in the document's order.
Prefixes == [i \in 1..MaxEnvs |-> i]

Entry(keys, p) == [keys |-> keys, prefix |-> p]
FullEntries == [i \in 1..MaxEnvs |-> Entry(EntryKeys, Prefixes[i])]

\* A JSON object on stdout: the top-level keys it has and, under
\* environments_info, its entries.
Doc(keys, envs) == [wellFormed |-> TRUE, keys |-> keys, envs |-> envs]
\* Text that is no JSON.
Garbage == [wellFormed |-> FALSE, keys |-> {}, envs |-> << >>]

\* What one run of '<command> info --json' can do, as exec() shows it:
\* "failed" is a process that could not be spawned or that exited with a
\* failure; every other run exited normally and differs by its stdout.
Outcomes ==
    {"failed", "garbage", "noEnvsInfo", "noPlatform", "entryNoName",
     "okEmpty", "ok"}

\* The runs that exit normally with the full document on stdout and with
\* text on stderr as well.
StderrOutcomes == {"okStderr"}

\* Output on stderr is made an error, as in the variant of getEnvListCached
\* that passes throwOnStdErr: true.
ThrowOnStdErrStrict == TRUE

\* The option throwOnStdErr that getPixiInfo passes to exec().
ThrowOnStdErr == FALSE

\* exec() rejects when the process cannot be spawned or exits with a
\* failure, and, with throwOnStdErr, when it writes to stderr.
ExecRejects(o) ==
    o = "failed" \/ (ThrowOnStdErr /\ o \in StderrOutcomes)

\* The stdout of a run that exec() resolved.
Stdout(o) ==
    CASE o = "garbage" -> Garbage
      [] o = "noEnvsInfo" ->
            Doc(RequiredKeys \ {"environments_info"}, << >>)
      [] o = "noPlatform" -> Doc(RequiredKeys \ {"platform"}, FullEntries)
      [] o = "entryNoName" ->
            Doc(RequiredKeys,
                [i \in 1..MaxEnvs |->
                    Entry(EntryKeys \ {"name"}, Prefixes[i])])
      [] o = "okEmpty" -> Doc(RequiredKeys, << >>)
      [] OTHER -> Doc(RequiredKeys, FullEntries)

\* ------------------------------------------------------------- the results

\* What an async method ends with: a value, undefined, or a rejection.
Undefined == [tag |-> "undefined"]
Rejected == [tag |-> "rejected"]
Value(v) == [tag |-> "value", v |-> v]

\* JSON.parse(infoOutput.stdout): the object, or a SyntaxError.
JSONParse(stdout) ==
    IF stdout.wellFormed
    THEN Value([keys |-> stdout.keys, envs |-> stdout.envs])
    ELSE Rejected

\* Pixi.getPixiInfo once exec has ended with outcome o: a rejection of exec
\* is caught and gives undefined; the parsed text is returned as it is.
GetPixiInfoResult(o) ==
    IF ExecRejects(o) THEN Undefined ELSE JSONParse(Stdout(o))

\* env.prefix of one entry (0 stands for undefined).
PrefixOf(e) == IF "prefix" \in e.keys THEN e.prefix ELSE 0

\* pixiInfo?.environments_info.map((env) => env.prefix)
MapPrefixes(info) ==
    IF "environments_info" \in info.keys
    THEN Value([i \in 1..Len(info.envs) |-> PrefixOf(info.envs[i])])
    ELSE Rejected

\* Pixi.getEnvListCached once getPixiInfo has ended with r.
EnvListOfInfo(r) == IF r.tag = "value" THEN MapPrefixes(r.v) ELSE r

\* Pixi.getEnvList once exec has ended with outcome o.
GetEnvListResult(o) == EnvListOfInfo(GetPixiInfoResult(o))

\* ---------------------------------------------------------------- the state

VARIABLES
    testExecution,  \* isTestExecution()
    setting,        \* what getPythonSetting('pixiToolPath') does
    home,           \* the home directory and the binary under it
    now,            \* Date.now(), in ms since the start
    ticks,          \* the times the clock has advanced
    pixiPromise,    \* Pixi.pixiPromise: cwd -> resolution (0: no entry)
    locs,           \* the runs of Pixi.locate, in the order they started
    execs,          \* the runs of exec(command, ['info', '--json'], {cwd}),
                    \* each named by who started it and its number there
    envCache,       \* the store of @cache on getEnvListCached, by cwd
    infoCache,      \* the store of @cache on getPixiInfo, by cwd
    calls,          \* the calls of Pixi.getPixi and the promise each got
    disk,           \* the listed prefixes that exist on disk
    enum,           \* the enumeration of PixiLocator.doIterEnvs()
    reqs,           \* the calls of getEnvList() and getPixiInfo() made on
                    \* handles by their holders, in the order they were made
    run,            \* one call of getRunPythonArgs: its arguments and result
    derive          \* one interpreter path and what is derived from it

\* No run. A run is named <<owner, n>>: the n-th run that resolution
\* `owner` started (owner 0: the enumerator's own call of getEnvList;
\* owner -k: the k-th call a holder made on a handle).
NoExec == <<0, 0>>

NoEntry == [exec |-> NoExec, expiry |-> 0]

\* ------------------------------------------------------ the @cache decorator

\* A stored item is served while it has not expired; test execution
\* bypasses the store.
CacheHit(store, key) ==
    /\ ~testExecution
    /\ store[key].exec # NoExec
    /\ store[key].expiry > now

\* With cachePromise the promise is stored when the call starts.
CacheStore(store, key, promise, ttl) ==
    IF testExecution
    THEN store
    ELSE [store EXCEPT ![key] = [exec |-> promise, expiry |-> now + ttl]]

\* ------------------------------------------------------- the handle's calls

\* The option cwd is not passed: the process runs where the extension does.
NewExecInProcessCwd(command, cwd) ==
    [command |-> command, args |-> <<"info", "--json">>, cwd |-> ".",
     outcome |-> "running"]

\* exec(this.command, ['info', '--json'], {cwd: this.cwd, throwOnStdErr: false})
NewExec(command, cwd) ==
    [command |-> command, args |-> <<"info", "--json">>, cwd |-> cwd,
     outcome |-> "running"]

\* The name of the next run that `owner` starts.
NewExecId(owner, ex) ==
    <<owner, 1 + Cardinality({id \in DOMAIN ex : id[1] = owner})>>

\* The snapshot is stored for as long as the list of prefixes.
GetPixiInfoKeptLong(owner, command, cwd, ex, ic) ==
    IF CacheHit(ic, cwd)
    THEN [execs |-> ex, infoCache |-> ic, promise |-> ic[cwd].exec]
    ELSE LET id == NewExecId(owner, ex)
         IN  [execs |-> ex @@ (id :> NewExec(command, cwd)),
              infoCache |-> CacheStore(ic, cwd, id, EnvListTTL),
              promise |-> id]

\* Pixi.getPixiInfo(cwd) of the handle (command, cwd), up to its first await:
\* the execs and the store after it, and the invocation its promise awaits.
GetPixiInfo(owner, command, cwd, ex, ic) ==
    IF CacheHit(ic, cwd)
    THEN [execs |-> ex, infoCache |-> ic, promise |-> ic[cwd].exec]
    ELSE LET id == NewExecId(owner, ex)
         IN  [execs |-> ex @@ (id :> NewExec(command, cwd)),
              infoCache |-> CacheStore(ic, cwd, id, InfoTTL),
              promise |-> id]

\* Pixi.getEnvListCached(cwd) of the handle (command, cwd), likewise.
GetEnvListCached(owner, command, cwd, ex, ec, ic) ==
    IF CacheHit(ec, cwd)
    THEN [execs |-> ex, envCache |-> ec, infoCache |-> ic,
          promise |-> ec[cwd].exec]
    ELSE LET info == GetPixiInfo(owner, command, cwd, ex, ic)
         IN  [execs |-> info.execs,
              envCache |-> CacheStore(ec, cwd, info.promise, EnvListTTL),
              infoCache |-> info.infoCache,
              promise |-> info.promise]

\* Pixi.getEnvList() of the handle (command, cwd).
GetEnvList(owner, command, cwd, ex, ec, ic) ==
    GetEnvListCached(owner, command, cwd, ex, ec, ic)

\* ------------------------------------------------------------- Pixi.locate

\* The setting is not compared with the default command.
FirstStagePixiIsOverride ==
    IF /\ setting # SettingThrows
       /\ setting \notin {SettingUndefined, ""}
    THEN "custom"
    ELSE "path"

\* getCandidates(): the candidate the generator yields first ...
FirstStage ==
    IF /\ setting # SettingThrows
       /\ setting \notin {SettingUndefined, ""}
       /\ setting # "pixi"
    THEN "custom"
    ELSE "path"

\* The default installation location is yielded before the bare command.
NextStageHomeFirst(stage) ==
    CASE stage = "custom" -> IF home = "exists" THEN "default" ELSE "path"
      [] stage = "default" -> "path"
      [] OTHER -> "end"

\* The binary under the home directory is yielded without the check that
\* it exists.
NextStageNoExistenceCheck(stage) ==
    CASE stage = "custom" -> "path"
      [] stage = "path" -> IF home # "nohome" THEN "default" ELSE "end"
      [] OTHER -> "end"

\* ... and the one it yields after the candidate of `stage` ("end": none).
NextStage(stage) ==
    CASE stage = "custom" -> "path"
      [] stage = "path" -> IF home = "exists" THEN "default" ELSE "end"
      [] OTHER -> "end"

\* The command of a candidate.
CommandOf(stage) ==
    CASE stage = "custom" -> setting
      [] stage = "path" -> "pixi"
      [] OTHER -> DefaultPath

\* One turn of the probing loop: new Pixi(pixiToolPath, cwd) and the call of
\* pixi.getEnvList() the loop awaits.
Probe(l, loc, stage, ex, ec, ic) ==
    LET r == GetEnvList(l, CommandOf(stage), loc.cwd, ex, ec, ic)
    IN  [loc |-> [loc EXCEPT
                    !.stage = stage,
                    !.command = CommandOf(stage),
                    !.await = r.promise,
                    !.probes = Append(@, [command |-> CommandOf(stage),
                                          exec |-> r.promise,
                                          own |-> r.promise \notin DOMAIN ex])],
         execs |-> r.execs, envCache |-> r.envCache,
         infoCache |-> r.infoCache]

\* A resolution that has not probed yet. homeSeen is what the generator
\* found of the home directory when it was resumed after 'pixi' ("": it has
\* not been resumed there).
NewLoc(cwd) ==
    [cwd |-> cwd, stage |-> "end", command |-> "", await |-> NoExec,
     probes |-> << >>, state |-> "pending", homeSeen |-> ""]

\* The loop does not return at the first candidate that gives a list: it
\* goes on and keeps the last.
AfterProbeKeepsProbing(loc, r) ==
    CASE r.tag = "rejected" -> "rejected"
      [] r.tag = "value" ->
            IF NextStage(loc.stage) = "end" THEN "handle" ELSE "pending"
      [] OTHER -> IF NextStage(loc.stage) = "end" THEN "none" ELSE "pending"

\* An empty list is taken for no list.
AfterProbeEmptyIsAbsent(loc, r) ==
    CASE r.tag = "rejected" -> "rejected"
      [] r.tag = "value" /\ r.v # << >> -> "handle"
      [] OTHER -> IF NextStage(loc.stage) = "end" THEN "none" ELSE "pending"

\* What the loop does with the list it awaited.
AfterProbe(loc, r) ==
    CASE r.tag = "rejected" -> "rejected"
      [] r.tag = "value" -> "handle"
      [] OTHER -> IF NextStage(loc.stage) = "end" THEN "none" ELSE "pending"

\* Pixi.locate of resolution l goes on after an await that has settled: it
\* returns, throws, or probes the next candidate, and goes on at once when
\* that probe is served a promise that has already settled. p holds the
\* resolution, the invocations and the stores.
RECURSIVE Resume(_, _)
Resume(l, p) ==
    LET r == GetEnvListResult(p.execs[p.loc.await].outcome)
        st == AfterProbe(p.loc, r)
        seen == IF p.loc.stage = "path" /\ r.tag = "undefined"
                THEN home
                ELSE p.loc.homeSeen
    IN  IF st # "pending"
        THEN [p EXCEPT !.loc.state = st, !.loc.homeSeen = seen]
        ELSE LET q == Probe(l, [p.loc EXCEPT !.homeSeen = seen],
                            NextStage(p.loc.stage), p.execs,
                            p.envCache, p.infoCache)
             IN  IF q.execs[q.loc.await].outcome = "running"
                 THEN q
                 ELSE Resume(l, q)

\* Pixi.locate(cwd) up to the first await that does not settle at once.
Locate(l, cwd) ==
    LET p == Probe(l, NewLoc(cwd), FirstStage, execs, envCache, infoCache)
    IN  IF p.execs[p.loc.await].outcome = "running" THEN p ELSE Resume(l, p)

\* The entry of the registry is not consulted.
StartsLocateAlways(cwd) == TRUE

\* Test execution is not consulted.
StartsLocateWhenNoEntry(cwd) == pixiPromise[cwd] = 0

\* Pixi.getPixi(cwd): whether the call starts a resolution.
StartsLocate(cwd) == pixiPromise[cwd] = 0 \/ testExecution

\* Pixi.getPixi(cwd): the registry, the resolutions, the invocations and
\* the stores after the call.
GetPixi(cwd) ==
    IF StartsLocate(cwd)
    THEN LET p == Locate(Len(locs) + 1, cwd)
         IN  /\ locs' = Append(locs, p.loc)
             /\ pixiPromise' = [pixiPromise EXCEPT ![cwd] = Len(locs) + 1]
             /\ execs' = p.execs
             /\ envCache' = p.envCache
             /\ infoCache' = p.infoCache
    ELSE UNCHANGED <<locs, pixiPromise, execs, envCache, infoCache>>

\* The resolutions that await run e.
Waiters(ls, e) ==
    {l \in 1..Len(ls) : ls[l].state = "pending" /\ ls[l].await = e}

\* Every resolution that awaits run e goes on, in the order they started.
RECURSIVE ResumeAll(_, _)
ResumeAll(w, e) ==
    IF Waiters(w.locs, e) = {}
    THEN w
    ELSE LET l == CHOOSE x \in Waiters(w.locs, e) :
                    \A y \in Waiters(w.locs, e) : x <= y
             p == Resume(l, [loc |-> w.locs[l], execs |-> w.execs,
                             envCache |-> w.envCache,
                             infoCache |-> w.infoCache])
         IN  ResumeAll([locs |-> [w.locs EXCEPT ![l] = p.loc],
                        execs |-> p.execs, envCache |-> p.envCache,
                        infoCache |-> p.infoCache], e)

\* ------------------------------------------------------------- the actions

\* A caller calls Pixi.getPixi(cwd) and holds the promise it returns.
CallGetPixi ==
    /\ Len(calls) < MaxCalls
    /\ \E cwd \in Cwds :
        /\ GetPixi(cwd)
        /\ calls' = Append(calls, [cwd |-> cwd,
                                   promise |-> pixiPromise'[cwd],
                                   started |-> StartsLocate(cwd)])
    /\ UNCHANGED <<run, derive, reqs, testExecution, setting, home, now, ticks, disk, enum>>

\* Run e of the tool ends with outcome o, and the resolutions that await
\* it go on in the same turn of the event loop.
EndExec(e, o) ==
    LET w == ResumeAll([locs |-> locs,
                        execs |-> [execs EXCEPT ![e].outcome = o],
                        envCache |-> envCache,
                        infoCache |-> infoCache], e)
    IN  /\ locs' = w.locs
        /\ execs' = w.execs
        /\ envCache' = w.envCache
        /\ infoCache' = w.infoCache

\* A run of the tool ends.
ExecEnds ==
    /\ \E e \in DOMAIN execs, o \in Outcomes :
        /\ execs[e].outcome = "running"
        /\ EndExec(e, o)
    /\ UNCHANGED <<run, derive, reqs, testExecution, setting, home, now,
                   ticks, pixiPromise, calls, disk, enum>>

\* A run of the tool ends after it has written to stderr as well.
ExecEndsWithStderr ==
    /\ \E e \in DOMAIN execs, o \in StderrOutcomes :
        /\ execs[e].outcome = "running"
        /\ EndExec(e, o)
    /\ UNCHANGED <<run, derive, reqs, testExecution, setting, home, now,
                   ticks, pixiPromise, calls, disk, enum>>

\* Time passes. Only the cache decorator reads the clock, and not in test
\* execution.
Tick ==
    /\ ~testExecution
    /\ ticks < MaxTicks
    /\ \E d \in TickSteps : now' = now + d
    /\ ticks' = ticks + 1
    /\ UNCHANGED <<run, derive, reqs, testExecution, setting, home, pixiPromise, locs, execs,
                   envCache, infoCache, calls, disk, enum>>

\* The binary under the home directory is installed or removed while
\* resolutions are under way.
HomeBinaryChanges ==
    /\ home # "nohome"
    /\ home' = IF home = "exists" THEN "missing" ELSE "exists"
    /\ UNCHANGED <<run, derive, reqs, testExecution, setting, now, ticks,
                   pixiPromise, locs, execs, envCache, infoCache, calls,
                   disk, enum>>

\* ------------------------------------------------- PixiLocator.doIterEnvs

\* The root of the PixiLocator.
Root == "/w1"

Idle ==
    [pc |-> "idle", promise |-> 0, await |-> NoExec, envDirs |-> << >>,
     filename |-> << >>, order |-> << >>, handed |-> {}, yielded |-> << >>]

\* asyncFilter(envDirs, pathExists): the listed prefixes that exist, in the
\* order of the list.
RECURSIVE AsyncFilter(_, _)
AsyncFilter(dirs, exists) ==
    IF dirs = << >>
    THEN << >>
    ELSE IF Head(dirs) \in exists
         THEN <<Head(dirs)>> \o AsyncFilter(Tail(dirs), exists)
         ELSE AsyncFilter(Tail(dirs), exists)

\* (await pixi?.getEnvList()) ?? []
EnvDirsOf(r) == IF r.tag = "value" THEN r.v ELSE << >>

\* getVirtualEnvDirs(root) once the list has been awaited.
GetVirtualEnvDirs(r) == AsyncFilter(EnvDirsOf(r), disk)

\* envDirs.map((envDir) => generator()): one generator per directory, in the
\* order of envDirs; none has got its interpreter yet.
EnvGenerators(envDirs) == [i \in 1..Len(envDirs) |-> "pending"]

\* What getCondaInterpreterPath(envDir) can end with.
InterpreterOutcomes == {"found", "undefined", "throws"}

\* The record generator() yields for envDir once it has the filename.
EnvInfo(envDir) ==
    [executablePath |-> <<envDir, "python">>, kind |-> "pixi",
     envPath |-> envDir]

\* generator(): whether it yields a record.
Yields(filename) == filename = "found"

\* The chain hands on the result of whichever generator ended first.
ChainNextRace(e) ==
    LET rest == 1..Len(e.envDirs) \ e.handed
        ended == {k \in 1..Len(e.order) : e.order[k] \in rest}
    IN  IF ended = {}
        THEN CHOOSE i \in rest : \A j \in rest : i <= j
        ELSE e.order[CHOOSE k \in ended : \A j \in ended : k <= j]

\* chain(envGenerators): the generator whose result it hands on next, the
\* first in the order of the list that it has not yet finished with ...
ChainNext(e) ==
    CHOOSE i \in 1..Len(e.envDirs) \ e.handed :
        \A j \in 1..Len(e.envDirs) \ e.handed : i <= j

\* The chain hands nothing on before every generator has ended.
ChainReadyWhenAllEnded(e) ==
    \A i \in 1..Len(e.envDirs) : e.filename[i] # "pending"

\* ... when it hands it on: as soon as that generator has ended ...
ChainReady(e) == e.filename[ChainNext(e)] # "pending"

\* ... what it hands on: the record of a generator that yields one, and
\* nothing for a generator that ends without a record or with an error ...
ChainYield(e, i) ==
    IF Yields(e.filename[i])
    THEN Append(e.yielded, EnvInfo(e.envDirs[i]))
    ELSE e.yielded

\* The error of one generator ends the chain with that error.
ChainAfterAborts(e, i) ==
    IF e.filename[i] = "throws"
    THEN "error"
    ELSE IF e.handed \cup {i} = 1..Len(e.envDirs) THEN "done" ELSE "chain"

\* ... and how it goes on after generator i: the error of one generator
\* does not end the chain, which ends after the last generator.
ChainAfter(e, i) ==
    IF e.handed \cup {i} = 1..Len(e.envDirs) THEN "done" ELSE "chain"

\* The iterator after getVirtualEnvDirs(root) has returned envDirs.
StartChain(e, envDirs) ==
    [e EXCEPT !.pc = IF envDirs = << >> THEN "done" ELSE "chain",
              !.envDirs = envDirs,
              !.filename = EnvGenerators(envDirs)]

\* The consumer asks for the first record: iterator(root) calls
\* getVirtualEnvDirs(root), which calls Pixi.getPixi(root).
EnumStarts ==
    /\ enum.pc = "idle"
    /\ GetPixi(Root)
    /\ enum' = [enum EXCEPT !.pc = "getPixi", !.promise = pixiPromise'[Root]]
    /\ UNCHANGED <<run, derive, reqs, testExecution, setting, home, now, ticks, calls, disk>>

\* getVirtualEnvDirs goes on after the await of Pixi.getPixi(root).
EnumGotPixi ==
    /\ enum.pc = "getPixi"
    /\ locs[enum.promise].state # "pending"
    /\ LET loc == locs[enum.promise]
       IN  CASE loc.state = "rejected" ->
                    /\ enum' = [enum EXCEPT !.pc = "error"]
                    /\ UNCHANGED <<execs, envCache, infoCache>>
             [] loc.state = "none" ->
                    /\ enum' = StartChain(enum, GetVirtualEnvDirs(Undefined))
                    /\ UNCHANGED <<execs, envCache, infoCache>>
             [] OTHER ->
                    LET r == GetEnvList(0, loc.command, Root, execs,
                                        envCache, infoCache)
                    IN  /\ enum' = [enum EXCEPT !.pc = "getEnvList",
                                                !.await = r.promise]
                        /\ execs' = r.execs
                        /\ envCache' = r.envCache
                        /\ infoCache' = r.infoCache
    /\ UNCHANGED <<run, derive, reqs, testExecution, setting, home, now, ticks, pixiPromise,
                   locs, calls, disk>>

\* getVirtualEnvDirs goes on after the await of pixi.getEnvList(), and the
\* iterator starts the chain of the generators.
EnumGotList ==
    /\ enum.pc = "getEnvList"
    /\ execs[enum.await].outcome # "running"
    /\ LET r == GetEnvListResult(execs[enum.await].outcome)
       IN  IF r.tag = "rejected"
           THEN enum' = [enum EXCEPT !.pc = "error"]
           ELSE enum' = StartChain(enum, GetVirtualEnvDirs(r))
    /\ UNCHANGED <<run, derive, reqs, testExecution, setting, home, now, ticks, pixiPromise,
                   locs, execs, envCache, infoCache, calls, disk>>

\* getCondaInterpreterPath(envDir) of one generator ends.
InterpreterEnds ==
    /\ enum.pc = "chain"
    /\ \E i \in 1..Len(enum.envDirs), o \in InterpreterOutcomes :
        /\ enum.filename[i] = "pending"
        /\ enum' = [enum EXCEPT !.filename[i] = o,
                                !.order = Append(@, i)]
    /\ UNCHANGED <<run, derive, reqs, testExecution, setting, home, now, ticks, pixiPromise,
                   locs, execs, envCache, infoCache, calls, disk>>

\* The chain hands on the result of the next generator, or ends.
ChainSteps ==
    /\ enum.pc = "chain"
    /\ ChainReady(enum)
    /\ LET i == ChainNext(enum)
       IN  /\ enum' = [enum EXCEPT
                        !.yielded = ChainYield(enum, i),
                        !.handed = @ \cup {i},
                        !.pc = ChainAfter(enum, i)]
    /\ UNCHANGED <<run, derive, reqs, testExecution, setting, home, now, ticks, pixiPromise,
                   locs, execs, envCache, infoCache, calls, disk>>

\* ------------------------------------------- the paths of an interpreter

\* getOSType()
OSTypes == {"Windows", "OSX", "Linux"}

\* The names of the directories and files of a path. A path is the
\* sequence of its characters.
Names == {"a", "b"}

\* The root of an absolute path: '/', or 'C:\' on Windows.
RootOf(os) == IF os = "Windows" THEN <<"C", ":", "\\">> ELSE <<"/">>
Sep(os) == IF os = "Windows" THEN "\\" ELSE "/"

\* The absolute path of the files `parts` below the root.
RECURSIVE Below(_, _)
Below(os, parts) ==
    IF parts = << >>
    THEN << >>
    ELSE IF Len(parts) = 1
         THEN <<parts[1]>>
         ELSE <<parts[1], Sep(os)>> \o Below(os, Tail(parts))
AbsolutePath(os, parts) == RootOf(os) \o Below(os, parts)

\* isPathSeparator(code) of the path module of the platform.
IsPathSeparator(os, c) == c = "/" \/ (os = "Windows" /\ c = "\\")

\* isWindowsDeviceRoot(code): a letter.
IsWindowsDeviceRoot(c) == c \in {"C", "a", "b"}

\* The loop of path.dirname: from index i (counted from 0) down to offset,
\* the index of the first separator that has a name after it, or -1.
RECURSIVE ScanEnd(_, _, _, _, _)
ScanEnd(os, path, i, offset, matchedSlash) ==
    IF i < offset
    THEN -1
    ELSE IF IsPathSeparator(os, path[i + 1])
         THEN IF ~matchedSlash
              THEN i
              ELSE ScanEnd(os, path, i - 1, offset, TRUE)
         ELSE ScanEnd(os, path, i - 1, offset, FALSE)

\* path.posix.dirname
PosixDirname(path) ==
    IF Len(path) = 0
    THEN <<".">>
    ELSE LET hasRoot == path[1] = "/"
             end == ScanEnd("Linux", path, Len(path) - 1, 1, TRUE)
         IN  IF end = -1
             THEN IF hasRoot THEN <<"/">> ELSE <<".">>
             ELSE IF hasRoot /\ end = 1
                  THEN <<"/", "/">>
                  ELSE SubSeq(path, 1, end)

\* path.win32.dirname, for the paths that do not start with a UNC root
\* (two separators).
Win32Dirname(path) ==
    IF Len(path) = 0
    THEN <<".">>
    ELSE IF Len(path) = 1
    THEN IF IsPathSeparator("Windows", path[1]) THEN path ELSE <<".">>
    ELSE LET rootEnd ==
                 IF IsPathSeparator("Windows", path[1])
                 THEN 1
                 ELSE IF IsWindowsDeviceRoot(path[1]) /\ path[2] = ":"
                      THEN IF /\ Len(path) > 2
                              /\ IsPathSeparator("Windows", path[3])
                           THEN 3
                           ELSE 2
                      ELSE -1
             offset == IF rootEnd = -1 THEN 0 ELSE rootEnd
             end == ScanEnd("Windows", path, Len(path) - 1, offset, TRUE)
         IN  IF end = -1
             THEN IF rootEnd = -1 THEN <<".">> ELSE SubSeq(path, 1, rootEnd)
             ELSE SubSeq(path, 1, end)

\* path.dirname of the platform.
Dirname(os, path) ==
    IF os = "Windows" THEN Win32Dirname(path) ELSE PosixDirname(path)

\* getCondaEnvironmentFromInterpreterPath(interpreterPath)
GetCondaEnvironmentFromInterpreterPath(os, interpreterPath) ==
    LET interpreterDir == Dirname(os, interpreterPath)
    IN  IF os = "Windows"
        THEN interpreterDir
        ELSE Dirname(os, interpreterDir)

\* The project is taken to be the directory of the environments.
GetPixiProjectFolderOneShort(os, interpreterPath) ==
    LET envDir == GetCondaEnvironmentFromInterpreterPath(os, interpreterPath)
        envsDir == Dirname(os, envDir)
        pixiDir == Dirname(os, envsDir)
    IN  pixiDir

\* getPixiProjectFolderFromInterpreter(interpreterPath)
GetPixiProjectFolderFromInterpreter(os, interpreterPath) ==
    LET envDir == GetCondaEnvironmentFromInterpreterPath(os, interpreterPath)
        envsDir == Dirname(os, envDir)
        pixiDir == Dirname(os, envsDir)
        projectDir == Dirname(os, pixiDir)
    IN  projectDir

\* No interpreter path yet.
NoDerive ==
    [os |-> "", parts |-> << >>, path |-> << >>, envDir |-> << >>,
     projectDir |-> << >>]

\* A caller derives the directory of the environment of the path.
CallGetCondaEnvironmentFromInterpreterPath ==
    /\ derive.path # << >>
    /\ derive.envDir = << >>
    /\ derive' = [derive EXCEPT
                    !.envDir = GetCondaEnvironmentFromInterpreterPath(
                                   derive.os, derive.path)]
    /\ UNCHANGED <<run, reqs, testExecution, setting, home, now, ticks,
                   pixiPromise, locs, execs, envCache, infoCache, calls,
                   disk, enum>>

\* A caller derives the project directory of the path.
CallGetPixiProjectFolderFromInterpreter ==
    /\ derive.path # << >>
    /\ derive.projectDir = << >>
    /\ derive' = [derive EXCEPT
                    !.projectDir = GetPixiProjectFolderFromInterpreter(
                                       derive.os, derive.path)]
    /\ UNCHANGED <<run, reqs, testExecution, setting, home, now, ticks,
                   pixiPromise, locs, execs, envCache, infoCache, calls,
                   disk, enum>>

\* ------------------------------------------------------ getRunPythonArgs

\* envName was not passed.
NoEnvName == "<undefined>"

\* OUTPUT_MARKER_SCRIPT: the fixed path of the bootstrap script.
OUTPUT_MARKER_SCRIPT == "<python_files>/get_output_via_markers.py"

\* The arguments the callers pass; isolatedFlag may be left out.
ManifestPaths == {"/w1/pixi.toml", "/w2/pyproject.toml"}
EnvNames == {NoEnvName, "default", "py311", ""}
IsolatedFlags == {"omitted", "false", "true"}
RunCommands == {"pixi", CustomPath, DefaultPath}

\* The name 'default' is not told from the others.
IsDefinedEnvironmentName(envName) == envName # NoEnvName

\* isNonDefaultPixiEnvironmentName(envName)
IsNonDefaultPixiEnvironmentName(envName) ==
    envName # NoEnvName /\ envName # "default"

\* The parameter isolatedFlag = false.
IsIsolated(isolatedFlag) == isolatedFlag = "true"

\* The isolation flag is put with the flags of the tool, before 'python'.
GetRunPythonArgsFlagsFirst(command, manifestPath, envName, isolatedFlag) ==
    LET python0 == <<command, "run", "--manifest-path", manifestPath>>
        python1 == IF IsNonDefaultPixiEnvironmentName(envName)
                   THEN python0 \o <<"--environment", envName>>
                   ELSE python0
        python2 == IF IsIsolated(isolatedFlag)
                   THEN Append(python1, "-I")
                   ELSE python1
    IN  python2 \o <<"python", OUTPUT_MARKER_SCRIPT>>

\* Pixi.getRunPythonArgs(manifestPath, envName, isolatedFlag) of the handle
\* of `command`.
GetRunPythonArgs(command, manifestPath, envName, isolatedFlag) ==
    LET python0 == <<command, "run", "--manifest-path", manifestPath>>
        python1 == IF IsNonDefaultPixiEnvironmentName(envName)
                   THEN python0 \o <<"--environment", envName>>
                   ELSE python0
        python2 == Append(python1, "python")
        python3 == IF IsIsolated(isolatedFlag)
                   THEN Append(python2, "-I")
                   ELSE python2
    IN  Append(python3, OUTPUT_MARKER_SCRIPT)

\* No call yet.
NoRun ==
    [command |-> "", manifestPath |-> "", envName |-> NoEnvName,
     isolatedFlag |-> "omitted", result |-> << >>]

\* A holder of a handle calls getRunPythonArgs.
CallGetRunPythonArgs ==
    /\ run.result = << >>
    /\ run' = [run EXCEPT
                !.result = GetRunPythonArgs(run.command, run.manifestPath,
                                            run.envName, run.isolatedFlag)]
    /\ UNCHANGED <<derive, reqs, testExecution, setting, home, now, ticks,
                   pixiPromise, locs, execs, envCache, infoCache, calls,
                   disk, enum>>

\* ------------------------------------------------------ the specifications

InitLocator ==
    /\ testExecution \in BOOLEAN
    /\ now = 0
    /\ ticks = 0
    /\ pixiPromise = [c \in Cwds |-> 0]
    /\ locs = << >>
    /\ execs = << >>
    /\ envCache = [c \in Cwds |-> NoEntry]
    /\ infoCache = [c \in Cwds |-> NoEntry]
    /\ calls = << >>
    /\ enum = Idle
    /\ reqs = << >>
    /\ run = NoRun

\* The callers of Pixi.getPixi, under every configuration.
Init ==
    /\ InitLocator
    /\ derive = NoDerive
    /\ setting \in Settings
    /\ home \in Homes
    /\ disk = {}

vars ==
    <<testExecution, setting, home, now, ticks, pixiPromise, locs, execs,
      envCache, infoCache, calls, disk, enum, reqs, run, derive>>

Next == CallGetPixi \/ ExecEnds \/ Tick

Spec == Init /\ [][Next]_vars

\* The callers of Pixi.getPixi, with a path of the user's configured, while
\* the binary under the home directory comes and goes.
InitHome ==
    /\ InitLocator
    /\ derive = NoDerive
    /\ setting = CustomPath
    /\ home \in Homes
    /\ disk = {}

NextHome == CallGetPixi \/ ExecEnds \/ Tick \/ HomeBinaryChanges

SpecHome == InitHome /\ [][NextHome]_vars

\* The callers of Pixi.getPixi when the candidates may write to stderr.
InitStderr ==
    /\ InitLocator
    /\ derive = NoDerive
    /\ setting = "pixi"
    /\ home = "exists"
    /\ disk = {}

NextStderr == CallGetPixi \/ ExecEnds \/ ExecEndsWithStderr \/ Tick

SpecStderr == InitStderr /\ [][NextStderr]_vars

\* One enumeration of the root, with the default setting.
InitEnum ==
    /\ InitLocator
    /\ derive = NoDerive
    /\ setting = "pixi"
    /\ home = "missing"
    /\ disk \in SUBSET {Prefixes[i] : i \in 1..MaxEnvs}

NextEnum ==
    \/ EnumStarts
    \/ EnumGotPixi
    \/ EnumGotList
    \/ InterpreterEnds
    \/ ChainSteps
    \/ ExecEnds
    \/ Tick

SpecEnum == InitEnum /\ [][NextEnum]_vars

\* --------------------------------------------- the holders of the handles

\* The handle the holders call: new Pixi('pixi', root).
HandleCommand == "pixi"

\* The methods a holder calls.
Methods == {"getEnvList", "getPixiInfo"}

\* A holder calls pixi.getEnvList() or pixi.getPixiInfo(cwd) on the handle,
\* as getVirtualEnvDirs and getPixiEnvironmentFromInterpreter do, and holds
\* the promise.
CallAccessor ==
    /\ Len(reqs) < MaxReqs
    /\ \E m \in Methods :
        LET command == HandleCommand
            cwd == Root
            owner == 0 - (Len(reqs) + 1)
            req(promise) ==
                [method |-> m, command |-> command, cwd |-> cwd,
                 promise |-> promise, at |-> now,
                 own |-> promise \notin DOMAIN execs]
        IN  IF m = "getEnvList"
            THEN LET r == GetEnvList(owner, command, cwd, execs, envCache,
                                     infoCache)
                 IN  /\ execs' = r.execs
                     /\ envCache' = r.envCache
                     /\ infoCache' = r.infoCache
                     /\ reqs' = Append(reqs, req(r.promise))
            ELSE LET r == GetPixiInfo(owner, command, cwd, execs, infoCache)
                 IN  /\ execs' = r.execs
                     /\ infoCache' = r.infoCache
                     /\ reqs' = Append(reqs, req(r.promise))
                     /\ UNCHANGED envCache
    /\ UNCHANGED <<run, derive, testExecution, setting, home, now, ticks,
                   pixiPromise, locs, calls, disk, enum>>

\* Time passes between the calls of the holders.
Elapse ==
    /\ ~testExecution
    /\ ticks < MaxTicks
    /\ \E d \in ElapseSteps : now' = now + d
    /\ ticks' = ticks + 1
    /\ UNCHANGED <<run, derive, reqs, testExecution, setting, home, pixiPromise, locs,
                   execs, envCache, infoCache, calls, disk, enum>>

\* The holders of the handle outside test execution, whatever resolution
\* gave them the handle.
InitAccess ==
    /\ InitLocator
    /\ derive = NoDerive
    /\ ~testExecution
    /\ setting = "pixi"
    /\ home = "missing"
    /\ disk = {}

NextAccess == CallAccessor \/ ExecEnds \/ Elapse

SpecAccess == InitAccess /\ [][NextAccess]_vars

\* One call of getRunPythonArgs, with every combination of arguments.
InitArgs ==
    /\ testExecution \in BOOLEAN
    /\ setting = "pixi"
    /\ home = "missing"
    /\ disk = {}
    /\ now = 0
    /\ ticks = 0
    /\ pixiPromise = [c \in Cwds |-> 0]
    /\ locs = << >>
    /\ execs = << >>
    /\ envCache = [c \in Cwds |-> NoEntry]
    /\ infoCache = [c \in Cwds |-> NoEntry]
    /\ calls = << >>
    /\ enum = Idle
    /\ reqs = << >>
    /\ derive = NoDerive
    /\ run \in [command : RunCommands, manifestPath : ManifestPaths,
                envName : EnvNames, isolatedFlag : IsolatedFlags,
                result : {<< >>}]

NextArgs == CallGetRunPythonArgs

SpecArgs == InitArgs /\ [][NextArgs]_vars

\* The sequences of names of length 1..n.
PartsUpTo(n) == UNION {[1..k -> Names] : k \in 1..n}

\* One absolute interpreter path on one platform.
InitPaths ==
    /\ InitLocator
    /\ setting = "pixi"
    /\ home = "missing"
    /\ disk = {}
    /\ \E os \in OSTypes, parts \in PartsUpTo(MaxDepth) :
          derive = [NoDerive EXCEPT !.os = os, !.parts = parts,
                                    !.path = AbsolutePath(os, parts)]

NextPaths ==
    \/ CallGetCondaEnvironmentFromInterpreterPath
    \/ CallGetPixiProjectFolderFromInterpreter

SpecPaths == InitPaths /\ [][NextPaths]_vars

\* ---------------------------------------------------------------- helpers

Ended(e) == execs[e].outcome # "running"

\* What the call of getEnvList() of one probe ended with.
ProbeResult(p) == GetEnvListResult(execs[p.exec].outcome)

\* The resolutions of a working directory that are in flight.
InFlight(cwd) ==
    {l \in 1..Len(locs) : locs[l].cwd = cwd /\ locs[l].state = "pending"}

\* The candidates of a resolution as the specification lists them: the
\* configured path, the bare command, the binary under the home directory.
CandidateList ==
    (IF setting \in {SettingThrows, SettingUndefined, "", "pixi"}
     THEN << >> ELSE <<setting>>)
    \o <<"pixi">>
    \o (IF home = "exists" THEN <<DefaultPath>> ELSE << >>)

\* ------------------------------------------------------------------- C1

\* C1: outside test execution no working directory ever has more than one
\* resolution in flight, and all the calls of Pixi.getPixi for one working
\* directory hold the same promise: a call that finds an entry attaches to
\* it and starts nothing.
C1_OneResolutionInFlight ==
    ~testExecution =>
        /\ \A c \in Cwds : Cardinality(InFlight(c)) <= 1
        /\ \A j, k \in 1..Len(calls) :
              calls[j].cwd = calls[k].cwd =>
                  calls[j].promise = calls[k].promise
        /\ \A k \in 1..Len(calls) :
              locs[calls[k].promise].cwd = calls[k].cwd

\* A second caller has arrived for a working directory whose resolution is
\* still pending, and holds the pending promise.
C1_Witness ==
    /\ ~testExecution
    /\ \E k \in 1..Len(calls) :
        /\ ~calls[k].started
        /\ locs[calls[k].promise].state = "pending"

\* ------------------------------------------------------------------- C2

\* C2: outside test execution a resolution that has probed its last
\* candidate without any candidate giving a list ends in none, and no call
\* of Pixi.getPixi for a working directory that already has an entry starts
\* a resolution or a process.
C2_NoneIsMemoized ==
    ~testExecution =>
        /\ \A l \in 1..Len(locs) :
              ( /\ locs[l].state # "pending"
                /\ NextStage(locs[l].stage) = "end"
                /\ \A i \in 1..Len(locs[l].probes) :
                      ProbeResult(locs[l].probes[i]).tag # "value" )
              => locs[l].state = "none"
        /\ \A c \in Cwds :
              Cardinality({l \in 1..Len(locs) : locs[l].cwd = c}) <= 1

\* ------------------------------------------------------------------- C3

\* The first probe of resolution l ran the configured path, and that run
\* gave a list.
OverrideFunctions(l) ==
    /\ setting \notin {SettingThrows, SettingUndefined, "", "pixi"}
    /\ locs[l].probes[1].command = setting
    /\ execs[locs[l].probes[1].exec].command = setting
    /\ Ended(locs[l].probes[1].exec)
    /\ ProbeResult(locs[l].probes[1]).tag = "value"

\* C3: when the configured path functions, the resolution probes no other
\* candidate, runs no other command, and ends with a handle whose command
\* is the configured path.
C3_OverrideWins ==
    \A l \in 1..Len(locs) :
        OverrideFunctions(l) =>
            /\ \A i \in 1..Len(locs[l].probes) :
                  /\ locs[l].probes[i].command = setting
                  /\ execs[locs[l].probes[i].exec].command = setting
            /\ locs[l].state \in {"pending", "handle"}
            /\ locs[l].state = "handle" => locs[l].command = setting

C3_Witness ==
    \E l \in 1..Len(locs) :
        OverrideFunctions(l) /\ locs[l].state = "handle"

\* ------------------------------------------------------------------- C4

\* C4: the commands a resolution has probed are the first candidates of the
\* list, in the list's order; every probe but the last has ended without a
\* list; a resolution that has ended with a handle is bound to the candidate
\* it probed last, whose probe gave a list; one that has ended in none has
\* probed every candidate.
C4_ProbingOrder ==
    \A l \in 1..Len(locs) :
        LET ps == locs[l].probes
        IN  /\ Len(ps) <= Len(CandidateList)
            /\ \A i \in 1..Len(ps) : ps[i].command = CandidateList[i]
            /\ \A i \in 1..(Len(ps) - 1) :
                  Ended(ps[i].exec) /\ ProbeResult(ps[i]).tag = "undefined"
            /\ locs[l].state = "handle" =>
                  /\ locs[l].command = ps[Len(ps)].command
                  /\ ProbeResult(ps[Len(ps)]).tag = "value"
            /\ locs[l].state = "none" =>
                  /\ Len(ps) = Len(CandidateList)
                  /\ ProbeResult(ps[Len(ps)]).tag = "undefined"

\* A resolution has probed the three candidates and the last one functions.
C4_Witness ==
    \E l \in 1..Len(locs) :
        /\ Len(locs[l].probes) = 3
        /\ locs[l].state = "handle"
        /\ locs[l].command = DefaultPath

\* ------------------------------------------------------------------- C5

\* C5: no call of getEnvList() or getPixiInfo() rejects: whatever the run of
\* the tool did, each ends with a value or with undefined.
C5_AccessorsNeverReject ==
    \A e \in DOMAIN execs :
        Ended(e) =>
            /\ GetPixiInfoResult(execs[e].outcome).tag # "rejected"
            /\ GetEnvListResult(execs[e].outcome).tag # "rejected"

\* ------------------------------------------------------------------- C6

\* C6: no resolution ends with an error, and a candidate whose stdout is
\* malformed or does not match the schema is followed by the next candidate
\* (or by none, when it is the last).
C6_GetPixiNeverRejects ==
    \A l \in 1..Len(locs) :
        /\ locs[l].state # "rejected"
        /\ \A i \in 1..Len(locs[l].probes) :
              ( /\ Ended(locs[l].probes[i].exec)
                /\ execs[locs[l].probes[i].exec].outcome
                      \in {"garbage", "noEnvsInfo"}
                /\ locs[l].state # "pending" )
              => \/ i < Len(locs[l].probes)
                 \/ locs[l].state = "none"

\* ------------------------------------------------------------------- C7

\* A document that lacks a required key, at the top or in an entry.
MissesRequiredKey(doc) ==
    /\ doc.wellFormed
    /\ \/ ~(RequiredKeys \subseteq doc.keys)
       \/ \E i \in 1..Len(doc.envs) : ~(EntryKeys \subseteq doc.envs[i].keys)

\* C7: for a run whose stdout lacks a required key, getPixiInfo() and
\* getEnvList() both end with undefined.
C7_MissingKeyIsAbsent ==
    \A e \in DOMAIN execs :
        ( /\ Ended(e)
          /\ ~ExecRejects(execs[e].outcome)
          /\ MissesRequiredKey(Stdout(execs[e].outcome)) )
        => /\ GetPixiInfoResult(execs[e].outcome) = Undefined
           /\ GetEnvListResult(execs[e].outcome) = Undefined

\* ------------------------------------------------------------------- C8

\* The list of prefixes the tool reported to this enumeration.
Listed ==
    IF enum.await # NoExec /\ Ended(enum.await)
    THEN EnvDirsOf(GetEnvListResult(execs[enum.await].outcome))
    ELSE << >>

\* The generators whose interpreter was found.
Found == {i \in 1..Len(enum.envDirs) : enum.filename[i] = "found"}

RecordsOf(p) ==
    {k \in 1..Len(enum.yielded) : enum.yielded[k].envPath = p}

\* C8: an enumeration never ends with an error, and one that has ended has
\* yielded one record for each listed prefix that exists on disk and whose
\* interpreter was found, and no other record.
C8_ExactlyTheListedEnvs ==
    /\ enum.pc # "error"
    /\ enum.pc = "done" =>
        /\ \A i \in 1..Len(Listed) :
              Listed[i] \in disk =>
                  \E g \in 1..Len(enum.envDirs) :
                      /\ enum.envDirs[g] = Listed[i]
                      /\ Cardinality(RecordsOf(Listed[i]))
                            = (IF g \in Found THEN 1 ELSE 0)
        /\ \A k \in 1..Len(enum.yielded) :
              /\ enum.yielded[k].envPath \in disk
              /\ \E i \in 1..Len(Listed) : Listed[i] = enum.yielded[k].envPath

\* ------------------------------------------------------------------- C9

PositionIn(list, p) == CHOOSE i \in 1..Len(list) : list[i] = p

Thrown == {i \in 1..Len(enum.envDirs) : enum.filename[i] = "throws"}

\* C10: when getCondaInterpreterPath has failed for a prefix, the
\* enumeration does not end with an error, yields no record for that prefix
\* and, by the time it ends, has yielded the record of every prefix whose
\* interpreter was found.
C10_FailureSkipsOneEnv ==
    Thrown # {} =>
        /\ enum.pc \in {"chain", "done"}
        /\ \A i \in Thrown : RecordsOf(enum.envDirs[i]) = {}
        /\ \A i \in Found \cap enum.handed :
              RecordsOf(enum.envDirs[i]) # {}
        /\ enum.pc = "done" => enum.handed = 1..Len(enum.envDirs)

\* An enumeration has ended in which one interpreter failed, before the
\* chain got to a later prefix whose record was yielded.
C10_Witness ==
    /\ enum.pc = "done"
    /\ \E i \in Thrown, j \in Found :
        /\ i < j
        /\ RecordsOf(enum.envDirs[j]) # {}

\* ------------------------------------------------------------------ C11

\* When the run that a holder's call started was started: with that call.
StartOf(e) == reqs[0 - e[1]].at

\* The calls of a method that have been served.
Served(m) ==
    {k \in 1..Len(reqs) : reqs[k].method = m /\ Ended(reqs[k].promise)}

\* C11: outside test execution, a list of prefixes that a call of
\* getEnvList() is served comes from a run of the tool that was started no
\* more than 30 s before the call was made.
C11_ListAtMost30sStale ==
    ~testExecution =>
        \A k \in Served("getEnvList") :
            GetEnvListResult(execs[reqs[k].promise].outcome).tag = "value"
                => reqs[k].at - StartOf(reqs[k].promise) <= EnvListTTL

\* ------------------------------------------------------------------ C12

C13_CallsInFlightShareOneRun ==
    ~testExecution =>
        \A j, k \in 1..Len(reqs) :
            ( /\ j < k
              /\ reqs[j].method = reqs[k].method
              /\ reqs[j].cwd = reqs[k].cwd
              /\ reqs[j].own
              /\ ~Ended(reqs[j].promise) )
            => /\ reqs[k].promise = reqs[j].promise
               /\ ~reqs[k].own

\* ------------------------------------------------------------------ C14

\* The places of an element in a list.
PlacesOf(list, x) == {i \in 1..Len(list) : list[i] = x}

\* x is in the list and y comes right after it.
HasPair(list, x, y) ==
    \E i \in PlacesOf(list, x) : i < Len(list) /\ list[i + 1] = y

\* C14: the list getRunPythonArgs returns always has '--manifest-path'
\* with manifestPath right after it; it has '--environment', with envName
\* right after it, exactly when envName is defined and is not 'default';
\* it has '-I' exactly when isolatedFlag is true.
C14_RunArgsFlags ==
    run.result # << >> =>
        /\ HasPair(run.result, "--manifest-path", run.manifestPath)
        /\ HasPair(run.result, "--environment", run.envName)
              <=> (run.envName # NoEnvName /\ run.envName # "default")
        /\ PlacesOf(run.result, "--environment") # {}
              <=> (run.envName # NoEnvName /\ run.envName # "default")
        /\ PlacesOf(run.result, "-I") # {}
              <=> run.isolatedFlag = "true"

\* A call with a named environment and isolation has returned.
C14_Witness ==
    /\ run.result # << >>
    /\ run.envName = "py311"
    /\ run.isolatedFlag = "true"
    /\ HasPair(run.result, "--environment", "py311")

\* ------------------------------------------------------------------ C15

\* C15 as stated: for every input, 'python' and the bootstrap script are
\* the last two elements of the list, in that order, and every flag
\* ('--manifest-path', '--environment', '-I') comes before 'python'.
C15_PythonAndScriptLast ==
    run.result # << >> =>
        LET n == Len(run.result)
        IN  /\ run.result[n - 1] = "python"
            /\ run.result[n] = OUTPUT_MARKER_SCRIPT
            /\ \A f \in {"--manifest-path", "--environment", "-I"} :
                  \A i \in PlacesOf(run.result, f) : i < n - 1

\* C15 amended: the bootstrap script is the last element; 'python' is
\* right before it when isolatedFlag is not true, and is followed by '-I'
\* and then the script when it is true; '--manifest-path' and
\* '--environment' and their values come before 'python'.
C15_ScriptLastAfterPython ==
    run.result # << >> =>
        LET n == Len(run.result)
            py == IF run.isolatedFlag = "true" THEN n - 2 ELSE n - 1
        IN  /\ run.result[n] = OUTPUT_MARKER_SCRIPT
            /\ run.result[py] = "python"
            /\ run.isolatedFlag = "true" => run.result[n - 1] = "-I"
            /\ PlacesOf(run.result, "-I") \subseteq {n - 1}
            /\ \A f \in {"--manifest-path", "--environment"} :
                  \A i \in PlacesOf(run.result, f) : i + 1 < py

\* An isolated call has returned.
C15_Witness ==
    /\ run.result # << >>
    /\ run.isolatedFlag = "true"
    /\ run.result[Len(run.result) - 1] = "-I"

\* ------------------------------------------------------------------ C16

\* The directory n levels above the file `parts`; the root is the top.
Above(os, parts, n) ==
    AbsolutePath(os, SubSeq(parts, 1,
                            IF Len(parts) > n THEN Len(parts) - n ELSE 0))

\* The levels between an interpreter and its environment.
LevelsToEnv(os) == IF os = "Windows" THEN 1 ELSE 2

\* C16: the directory of the environment is the parent of the interpreter
\* path on Windows and the parent of its parent elsewhere, and the project
\* directory is three levels above the directory of the environment.
C16_PathDerivation ==
    /\ derive.envDir # << >> =>
          derive.envDir = Above(derive.os, derive.parts, LevelsToEnv(derive.os))
    /\ derive.projectDir # << >> =>
          derive.projectDir
              = Above(derive.os, derive.parts, LevelsToEnv(derive.os) + 3)

\* Both have been derived from a path deep enough for the project
\* directory to lie below the root.
C16_Witness ==
    /\ derive.envDir # << >>
    /\ derive.projectDir # << >>
    /\ Len(derive.parts) > LevelsToEnv(derive.os) + 3
    /\ derive.projectDir # RootOf(derive.os)

\* ------------------------------------------------------------------ C17

\* C17: outside test execution, what each probe of a resolution awaits is
\* a run of the probed candidate's own command, started by that probe: no
\* candidate is judged by the run of another candidate for the same
\* working directory; so a resolution that ends in none has run every
\* candidate.
C17_OwnInvocationDecides ==
    ~testExecution =>
        \A l \in 1..Len(locs) :
            /\ \A i \in 1..Len(locs[l].probes) :
                  /\ locs[l].probes[i].own
                  /\ execs[locs[l].probes[i].exec].command
                        = locs[l].probes[i].command
            /\ locs[l].state = "none" =>
                  \A i \in 1..Len(CandidateList) :
                      \E e \in DOMAIN execs :
                          /\ e[1] = l
                          /\ execs[e].command = CandidateList[i]

\* ------------------------------------------------------------------ C18

\* The calls of Pixi.getPixi for a working directory.
CallsFor(cwd) == {k \in 1..Len(calls) : calls[k].cwd = cwd}

\* C18: in test execution every call of Pixi.getPixi starts a resolution of
\* its own for its working directory and holds the promise of that
\* resolution, and the entry of the registry is that of the last call.
C18_TestModeResolvesAfresh ==
    testExecution =>
        /\ Len(locs) = Len(calls)
        /\ \A k \in 1..Len(calls) :
              /\ calls[k].started
              /\ calls[k].promise = k
              /\ locs[k].cwd = calls[k].cwd
        /\ \A c \in Cwds :
              CallsFor(c) # {} =>
                  pixiPromise[c]
                      = CHOOSE k \in CallsFor(c) : \A j \in CallsFor(c) : j <= k

\* A second call for a working directory whose first resolution has ended
\* has started another resolution.
C18_Witness ==
    /\ testExecution
    /\ \E j, k \in 1..Len(calls) :
        /\ j < k
        /\ calls[j].cwd = calls[k].cwd
        /\ locs[calls[j].promise].state \in {"handle", "none"}
        /\ calls[k].promise # calls[j].promise
        /\ pixiPromise[calls[k].cwd] = calls[k].promise

\* ------------------------------------------------------------------ C19

\* C19: a probe that is answered an empty list ends the resolution with a
\* handle bound to the probed candidate, and no further candidate is
\* probed; every probe that was followed by another was answered undefined.
C19_EmptyListFunctions ==
    \A l \in 1..Len(locs) :
        \A i \in 1..Len(locs[l].probes) :
            LET p == locs[l].probes[i]
            IN  /\ (Ended(p.exec) /\ ProbeResult(p) = Value(<< >>)) =>
                      /\ i = Len(locs[l].probes)
                      /\ locs[l].state = "handle"
                      /\ locs[l].command = p.command
                /\ i < Len(locs[l].probes) => ProbeResult(p) = Undefined

\* A candidate that is not the last one was answered an empty list.
C19_Witness ==
    \E l \in 1..Len(locs) :
        LET p == locs[l].probes[Len(locs[l].probes)]
        IN  /\ locs[l].state = "handle"
            /\ execs[p.exec].outcome = "okEmpty"
            /\ NextStage(locs[l].stage) # "end"

\* ------------------------------------------------------------------ C20

\* The probes of a resolution that ran the bare command.
PixiProbes(l) ==
    {i \in 1..Len(locs[l].probes) : locs[l].probes[i].command = "pixi"}

\* C20: when the setting cannot be read, or is unset, empty or 'pixi', a
\* resolution probes 'pixi' first and only once, then the binary under the
\* home directory if there is one, and nothing else; and a resolution ends
\* with an error only by the error of the probe it made last, never by
\* the reading of the setting.
C20_SettingFailureIsNoOverride ==
    /\ setting \in {SettingThrows, SettingUndefined, "", "pixi"} =>
        \A l \in 1..Len(locs) :
            /\ locs[l].probes[1].command = "pixi"
            /\ PixiProbes(l) = {1}
            /\ Len(locs[l].probes) <= (IF home = "exists" THEN 2 ELSE 1)
            /\ Len(locs[l].probes) = 2 =>
                  locs[l].probes[2].command = DefaultPath
    /\ \A l \in 1..Len(locs) :
          locs[l].state = "rejected" =>
              ProbeResult(locs[l].probes[Len(locs[l].probes)]) = Rejected

\* With a setting that throws, a resolution went from 'pixi' to the binary
\* under the home directory.
C20_Witness ==
    /\ setting = SettingThrows
    /\ \E l \in 1..Len(locs) :
        /\ Len(locs[l].probes) = 2
        /\ locs[l].probes[1].command = "pixi"
        /\ locs[l].probes[2].command = DefaultPath
        /\ locs[l].state \in {"handle", "none"}

\* ------------------------------------------------------------------ C21

\* The runs that resolution l started with the binary under the home
\* directory.
HomeRuns(l) ==
    {e \in DOMAIN execs : e[1] = l /\ execs[e].command = DefaultPath}

\* The probes of resolution l for the binary under the home directory.
HomeProbes(l) ==
    {i \in 1..Len(locs[l].probes) : locs[l].probes[i].command = DefaultPath}

\* C21: a resolution probes or runs the binary under the home directory
\* only if, when every earlier candidate had ended without a list, the home
\* directory was known and the binary existed; if it did not exist then,
\* the resolution has ended in none with 'pixi' as its last probe and has
\* started no run of the binary.
C21_HomeBinaryOnlyIfItExists ==
    \A l \in 1..Len(locs) :
        /\ (HomeRuns(l) # {} \/ HomeProbes(l) # {}) =>
              /\ locs[l].homeSeen = "exists"
              /\ \A i \in 1..Len(locs[l].probes) :
                    i < Len(locs[l].probes) =>
                        ProbeResult(locs[l].probes[i]) = Undefined
        /\ locs[l].homeSeen \in {"nohome", "missing"} =>
              /\ locs[l].state = "none"
              /\ locs[l].probes[Len(locs[l].probes)].command = "pixi"
              /\ HomeRuns(l) = {}
              /\ HomeProbes(l) = {}

\* One resolution found no binary when 'pixi' had failed, though the binary
\* was there when the resolution started or has come since, and ended in
\* none without running it; another found it and ran it.
C21_Witness ==
    /\ home = "exists"
    /\ \E l, m \in 1..Len(locs) :
        /\ locs[l].homeSeen = "missing"
        /\ locs[l].state = "none"
        /\ HomeRuns(l) = {}
        /\ locs[m].homeSeen = "exists"
        /\ HomeRuns(m) # {}

\* ------------------------------------------------------------------ C22

\* C22: a probe whose run wrote to stderr and put a well-formed document
\* on stdout is answered a list, and the resolution ends with a handle bound
\* to the candidate of that probe, which is the candidate that was run.
C22_StderrIsTolerated ==
    \A l \in 1..Len(locs) :
        \A i \in 1..Len(locs[l].probes) :
            LET p == locs[l].probes[i]
            IN  execs[p.exec].outcome \in StderrOutcomes =>
                    /\ ProbeResult(p).tag = "value"
                    /\ i = Len(locs[l].probes)
                    /\ locs[l].state = "handle"
                    /\ locs[l].command = p.command
                    /\ execs[p.exec].command = p.command

\* After 'pixi' failed, the binary under the home directory wrote to stderr
\* and gave the document, and the resolution is bound to it.
C22_Witness ==
    \E l \in 1..Len(locs) :
        /\ Len(locs[l].probes) = 2
        /\ execs[locs[l].probes[2].exec].outcome \in StderrOutcomes
        /\ locs[l].state = "handle"
        /\ locs[l].command = DefaultPath

\* ------------------------------------------------------------------ C23

\* The generators that have not got their interpreter yet.
StillPending ==
    {i \in 1..Len(enum.envDirs) : enum.filename[i] = "pending"}

\* C23: the record of a generator is handed to the consumer once that
\* generator and those before it in the list have ended, whatever the
\* generators after it are doing: the chain can take its step then, and
\* the record of every generator the chain has finished with has been
\* yielded, even while other generators are pending.
C23_YieldsIncrementally ==
    /\ ( /\ enum.pc = "chain"
         /\ \A i \in 1..Len(enum.envDirs) \ enum.handed :
               (\A j \in 1..Len(enum.envDirs) \ enum.handed : i <= j)
                   => enum.filename[i] # "pending" )
       => ENABLED ChainSteps
    /\ \A i \in enum.handed :
          enum.filename[i] = "found" => RecordsOf(enum.envDirs[i]) # {}

\* The first record has been yielded while the interpreters of two other
\* prefixes are still being resolved.
C23_Witness ==
    /\ enum.pc = "chain"
    /\ Len(enum.yielded) = 1
    /\ Cardinality(StillPending) >= 2

\* ------------------------------------------------------------------ C24

\* The last call of Pixi.getPixi for a working directory.
LastCallFor(cwd) ==
    CHOOSE k \in CallsFor(cwd) : \A j \in CallsFor(cwd) : j <= k

\* C24: the resolution a call of Pixi.getPixi(cwd) holds is one for cwd,
\* and the handle it ends with has the command of one of its candidates;
\* every run a resolution started or was served is a run of 'info --json'
\* in the working directory of the resolution; and the entry of the
\* registry for a working directory is there only if Pixi.getPixi was
\* called for it, and is the promise the last such call was given.
C24_BoundToItsCwd ==
    /\ \A k \in 1..Len(calls) :
          LET loc == locs[calls[k].promise]
          IN  /\ loc.cwd = calls[k].cwd
              /\ loc.state = "handle" =>
                    \E i \in 1..Len(CandidateList) :
                        loc.command = CandidateList[i]
    /\ \A l \in 1..Len(locs) :
          /\ \A i \in 1..Len(locs[l].probes) :
                /\ execs[locs[l].probes[i].exec].cwd = locs[l].cwd
                /\ execs[locs[l].probes[i].exec].args = <<"info", "--json">>
          /\ \A e \in DOMAIN execs :
                e[1] = l =>
                    /\ execs[e].cwd = locs[l].cwd
                    /\ execs[e].args = <<"info", "--json">>
    /\ \A c \in Cwds :
          IF CallsFor(c) = {}
          THEN pixiPromise[c] = 0
          ELSE /\ pixiPromise[c] = calls[LastCallFor(c)].promise
               /\ locs[pixiPromise[c]].cwd = c

\* Two working directories have each got a handle, from runs of their own.
C24_Witness ==
    \E j, k \in 1..Len(calls) :
        /\ calls[j].cwd # calls[k].cwd
        /\ locs[calls[j].promise].state = "handle"
        /\ locs[calls[k].promise].state = "handle"
        /\ pixiPromise[calls[j].cwd] = calls[j].promise
        /\ pixiPromise[calls[k].cwd] = calls[k].promise
====
